---- MODULE Spec2Model ----
(***************************************************************************)
(* Model of cmd/ctl/pkg/status/certificate/types.go: the                   *)
(* CertificateStatusBuilder (newCertificateStatusBuilderFromCert, the      *)
(* with* setters and build) and the two usage decoders keyUsageToString    *)
(* and extKeyUsageToString.                                                *)
(*                                                                         *)
(* Go pointers are addresses: 0 is nil.  The objects handed to the builder *)
(* (Certificate, Issuer, ClusterIssuer, Secret, CertificateRequest,        *)
(* EventList) live in fixed tables and a pointer to one is its index.  The *)
(* sub-reports the builder allocates (&IssuerStatus{...}, ...) live in     *)
(* heap, a sequence that grows by one object per allocation; builder and   *)
(* built reports hold addresses into it, as the Go structs hold pointers.  *)
(* A Go error is its message; the nil error is NoError.                    *)
(***************************************************************************)
EXTENDS Integers, Sequences, FiniteSets, TLC

VARIABLES builder, heap, reports, call, ncalls, panicked,
          usage, usageOut, extUsages, extOut, pc

vars == <<builder, heap, reports, call, ncalls, panicked,
          usage, usageOut, extUsages, extOut, pc>>

builderVars == <<builder, heap, reports, call, ncalls, panicked>>
decoderVars == <<usage, usageOut, extUsages, extOut, pc>>

\* ------------------------------------------------------------------ bounds
\* Number of builder method calls explored after construction.
MaxCalls == 3
\* Largest key-usage bitset explored.
MaxUsage == 1100
\* Longest extended-key-usage list explored.
MaxExtLen == 2
\* How many codes below 0 and above 13 the extended-key-usage lists draw from.
BadCodes == 2

\* ------------------------------------------------------------ Go zero values
Nil == 0
NoError == "<nil>"
NoBuilder == [isNil |-> TRUE]

\* ----------------------------------------------------- objects handed in
ReadyCondition ==
  [Type |-> "Ready", Status |-> "True", Reason |-> "Issued",
   Message |-> "Certificate issued"]

Certificates ==
  << [Name |-> "crt-a", Namespace |-> "ns-a", CreationTimestamp |-> 1600,
      Spec |-> [DNSNames |-> <<"a.example.com", "b.example.com">>],
      Status |-> [Conditions |-> <<ReadyCondition>>,
                  NotBefore |-> 1, NotAfter |-> 2, RenewalTime |-> 3]],
     [Name |-> "crt-b", Namespace |-> "ns-b", CreationTimestamp |-> 1700,
      Spec |-> [DNSNames |-> <<>>],
      Status |-> [Conditions |-> <<>>,
                  NotBefore |-> Nil, NotAfter |-> Nil, RenewalTime |-> Nil]] >>

Issuers ==
  << [Name |-> "issuer-a", Status |-> [Conditions |-> <<ReadyCondition>>]],
     [Name |-> "issuer-b", Status |-> [Conditions |-> <<>>]] >>

ClusterIssuers ==
  << [Name |-> "cluster-issuer-a", Status |-> [Conditions |-> <<>>]],
     [Name |-> "cluster-issuer-b", Status |-> [Conditions |-> <<ReadyCondition>>]] >>

\* Certificate bytes are opaque: GoodDER1 and GoodDER2 decode, BadDER does not.
GoodDER1 == <<48, 1>>
GoodDER2 == <<48, 2>>
BadDER == <<7>>

Secrets ==
  << [Name |-> "secret-nokey", Data |-> << >>],
     [Name |-> "secret-empty", Data |-> ("tls.crt" :> << >>)],
     [Name |-> "secret-bad", Data |-> ("tls.crt" :> BadDER)],
     [Name |-> "secret-a", Data |-> ("tls.crt" :> GoodDER1)],
     [Name |-> "secret-b", Data |-> ("tls.crt" :> GoodDER2)] >>

CertificateRequests ==
  << [Name |-> "cr-a", Namespace |-> "ns-a",
      Status |-> [Conditions |-> <<ReadyCondition>>]],
     [Name |-> "cr-b", Namespace |-> "ns-b", Status |-> [Conditions |-> <<>>]] >>

\* Two event lists; an *v1.EventList is 0 (nil) or an index of EventLists.
EventLists == << <<"Issuing">>, <<"Requested", "Issued">> >>

\* The errors a failed lookup hands to the builder.
Errors == {"issuer lookup failed", "not found"}
IssuerKinds == {"Issuer", "ClusterIssuer"}

Ptr(table) == 0 .. Len(table)
ErrArg == Errors \cup {NoError}

\* -------------------------------------------------------------- sub-reports
IssuerStatus(Error, Name, Kind, Conditions) ==
  [Error |-> Error, Name |-> Name, Kind |-> Kind, Conditions |-> Conditions]

SecretStatus(Error, Name, cert) ==
  [Error |-> Error, Name |-> Name,
   IssuerCountry |-> cert.Issuer.Country,
   IssuerOrganisation |-> cert.Issuer.Organization,
   IssuerCommonName |-> cert.Issuer.CommonName,
   KeyUsage |-> cert.KeyUsage, ExtKeyUsage |-> cert.ExtKeyUsage,
   PublicKeyAlgorithm |-> cert.PublicKeyAlgorithm,
   SignatureAlgorithm |-> cert.SignatureAlgorithm,
   SubjectKeyId |-> cert.SubjectKeyId, AuthorityKeyId |-> cert.AuthorityKeyId,
   SerialNumber |-> cert.SerialNumber]

CRStatus(Error, Name, Namespace, Conditions, Events) ==
  [Error |-> Error, Name |-> Name, Namespace |-> Namespace,
   Conditions |-> Conditions, Events |-> Events]

\* The x509.Certificate fields of a composite literal that sets none of them.
ZeroCert ==
  [Issuer |-> [Country |-> <<>>, Organization |-> <<>>, CommonName |-> ""],
   KeyUsage |-> 0, ExtKeyUsage |-> <<>>, PublicKeyAlgorithm |-> 0,
   SignatureAlgorithm |-> 0, SubjectKeyId |-> <<>>, AuthorityKeyId |-> <<>>,
   SerialNumber |-> <<>>]

\* The two certificates the good byte strings decode to.  SerialNumber is a
\* *big.Int: <<>> is nil, <<n>> points to n.
Cert1 ==
  [Issuer |-> [Country |-> <<"GB">>, Organization |-> <<"Jetstack">>,
               CommonName |-> "ca.example.com"],
   KeyUsage |-> 5, ExtKeyUsage |-> <<1, 2>>, PublicKeyAlgorithm |-> 1,
   SignatureAlgorithm |-> 4, SubjectKeyId |-> <<1, 2>>,
   AuthorityKeyId |-> <<3>>, SerialNumber |-> <<255>>]

Cert2 ==
  [Issuer |-> [Country |-> <<>>, Organization |-> <<"Org1", "Org2">>,
               CommonName |-> "root"],
   KeyUsage |-> 96, ExtKeyUsage |-> <<>>, PublicKeyAlgorithm |-> 3,
   SignatureAlgorithm |-> 10, SubjectKeyId |-> <<>>,
   AuthorityKeyId |-> <<>>, SerialNumber |-> <<1>>]

\* pki.DecodeX509CertificateBytes: (certificate, error).
DecodeX509CertificateBytes(certData) ==
  IF certData = GoodDER1 THEN <<Cert1, NoError>>
  ELSE IF certData = GoodDER2 THEN <<Cert2, NoError>>
  ELSE <<ZeroCert, "error decoding certificate PEM block">>

\* secret.Data[key]: the zero value (no bytes) when the key is missing.
MapGet(m, key) == IF key \in DOMAIN m THEN m[key] ELSE << >>

\* %q of a string without special characters.
Quote(s) == "\"" \o s \o "\""

\* &T{...}: a state with obj allocated at a fresh address, and that address.
NewAddr(h) == Len(h) + 1
Alloc(h, obj) == Append(h, obj)

\* ------------------------------------------------------------ the builder
newCertificateStatusBuilderFromCert(crt) ==
  IF crt = Nil THEN NoBuilder
  ELSE [isNil |-> FALSE,
        Name |-> Certificates[crt].Name,
        Namespace |-> Certificates[crt].Namespace,
        CreationTime |-> Certificates[crt].CreationTimestamp,
        Conditions |-> Certificates[crt].Status.Conditions,
        DNSNames |-> Certificates[crt].Spec.DNSNames,
        Events |-> Nil,
        NotBefore |-> Certificates[crt].Status.NotBefore,
        NotAfter |-> Certificates[crt].Status.NotAfter,
        RenewalTime |-> Certificates[crt].Status.RenewalTime,
        IssuerKind |-> "",
        IssuerStatus |-> Nil, SecretStatus |-> Nil, CRStatus |-> Nil]

\* Each method takes and returns [b: the builder, h: the heap, p: whether the
\* call has panicked].  The receiver may be the nil builder: a method panics
\* there when it reaches an access to a field of builder, not before.

\* builder.f = v
Write(s, f, v) ==
  IF s.b.isNil THEN [s EXCEPT !.p = TRUE]
  ELSE [s EXCEPT !.b[f] = v]

\* builder.f = &T{...}: obj at a fresh address and builder.f pointing to it.
\* On the nil builder the store panics; the object nothing points to is left
\* out of the heap.
Store(s, f, obj) ==
  IF s.b.isNil THEN [s EXCEPT !.p = TRUE]
  ELSE [s EXCEPT !.b[f] = NewAddr(s.h), !.h = Alloc(s.h, obj)]

withEvents(s, events) ==
  Write(s, "Events", events)

withIssuerKind(s, kind) ==
  Write(s, "IssuerKind", kind)

\* The bug of filling in the issuer's name although the lookup failed.
withIssuer_KeepsNameOnError(s, issuer, err) ==
  IF err # NoError
    THEN Store(s, "IssuerStatus",
               IssuerStatus(err, IF issuer = Nil THEN "" ELSE Issuers[issuer].Name,
                            "", <<>>))
  ELSE IF issuer = Nil
    THEN s
  ELSE Store(s, "IssuerStatus",
             IssuerStatus(NoError, Issuers[issuer].Name, "Issuer",
                          Issuers[issuer].Status.Conditions))

\* The bug of writing the error into the IssuerStatus the builder already
\* points to instead of allocating a new one.
withIssuer_InPlace(s, issuer, err) ==
  IF err # NoError
    THEN IF ~s.b.isNil /\ s.b.IssuerStatus # Nil
           THEN [s EXCEPT !.h[s.b.IssuerStatus] = IssuerStatus(err, "", "", <<>>)]
         ELSE Store(s, "IssuerStatus", IssuerStatus(err, "", "", <<>>))
  ELSE IF issuer = Nil
    THEN s
  ELSE Store(s, "IssuerStatus",
             IssuerStatus(NoError, Issuers[issuer].Name, "Issuer",
                          Issuers[issuer].Status.Conditions))

withIssuer(s, issuer, err) ==
  IF err # NoError
    THEN Store(s, "IssuerStatus", IssuerStatus(err, "", "", <<>>))
  ELSE IF issuer = Nil
    THEN s
  ELSE Store(s, "IssuerStatus",
             IssuerStatus(NoError, Issuers[issuer].Name, "Issuer",
                          Issuers[issuer].Status.Conditions))

\* The bug of resetting the issuer report when no cluster issuer is given.
withClusterIssuer_ClearsOnNil(s, clusterIssuer, err) ==
  IF err # NoError
    THEN Store(s, "IssuerStatus", IssuerStatus(err, "", "", <<>>))
  ELSE IF clusterIssuer = Nil
    THEN Write(s, "IssuerStatus", Nil)
  ELSE Store(s, "IssuerStatus",
             IssuerStatus(NoError, ClusterIssuers[clusterIssuer].Name, "ClusterIssuer",
                          ClusterIssuers[clusterIssuer].Status.Conditions))

withClusterIssuer(s, clusterIssuer, err) ==
  IF err # NoError
    THEN Store(s, "IssuerStatus", IssuerStatus(err, "", "", <<>>))
  ELSE IF clusterIssuer = Nil
    THEN s
  ELSE Store(s, "IssuerStatus",
             IssuerStatus(NoError, ClusterIssuers[clusterIssuer].Name, "ClusterIssuer",
                          ClusterIssuers[clusterIssuer].Status.Conditions))

TLSCrtNotSet(name) ==
  "error: 'tls.crt' of Secret " \o Quote(name) \o " is not set\n"

TLSCrtParseError(name, err) ==
  "error when parsing 'tls.crt' of Secret " \o Quote(name) \o ": " \o err \o "\n"

\* The bug of wrapping the error passed in instead of storing it as it is.
withSecret_WrapsErr(s, secret, err) ==
  IF err # NoError
    THEN Store(s, "SecretStatus",
               SecretStatus("error when getting Secret: " \o err, "", ZeroCert))
  ELSE IF secret = Nil
    THEN s
  ELSE LET name == Secrets[secret].Name
           certData == MapGet(Secrets[secret].Data, "tls.crt")
           decoded == DecodeX509CertificateBytes(certData)
       IN IF Len(certData) = 0
            THEN Store(s, "SecretStatus", SecretStatus(TLSCrtNotSet(name), "", ZeroCert))
          ELSE IF decoded[2] # NoError
            THEN Store(s, "SecretStatus",
                       SecretStatus(TLSCrtParseError(name, decoded[2]), "", ZeroCert))
          ELSE Store(s, "SecretStatus", SecretStatus(NoError, name, decoded[1]))

withSecret(s, secret, err) ==
  IF err # NoError
    THEN Store(s, "SecretStatus", SecretStatus(err, "", ZeroCert))
  ELSE IF secret = Nil
    THEN s
  ELSE LET name == Secrets[secret].Name
           certData == MapGet(Secrets[secret].Data, "tls.crt")
           decoded == DecodeX509CertificateBytes(certData)
       IN IF Len(certData) = 0
            THEN Store(s, "SecretStatus", SecretStatus(TLSCrtNotSet(name), "", ZeroCert))
          ELSE IF decoded[2] # NoError
            THEN Store(s, "SecretStatus",
                       SecretStatus(TLSCrtParseError(name, decoded[2]), "", ZeroCert))
          ELSE Store(s, "SecretStatus", SecretStatus(NoError, name, decoded[1]))

\* The bug of storing the events before looking at err.
withCR_EventsBeforeErrCheck(s, req, events, err) ==
  IF err # NoError
    THEN Store(Write(s, "Events", events), "CRStatus", CRStatus(err, "", "", <<>>, Nil))
  ELSE IF req = Nil
    THEN s
  ELSE Store(Write(s, "Events", events), "CRStatus",
             CRStatus(NoError, CertificateRequests[req].Name,
                      CertificateRequests[req].Namespace,
                      CertificateRequests[req].Status.Conditions, Nil))

\* The bug of storing the events before looking at req.
withCR_EventsBeforeReqCheck(s, req, events, err) ==
  IF err # NoError
    THEN Store(s, "CRStatus", CRStatus(err, "", "", <<>>, Nil))
  ELSE IF req = Nil
    THEN Write(s, "Events", events)
  ELSE Store(Write(s, "Events", events), "CRStatus",
             CRStatus(NoError, CertificateRequests[req].Name,
                      CertificateRequests[req].Namespace,
                      CertificateRequests[req].Status.Conditions, Nil))

\* The bug of keeping events the builder already has.
withCR_KeepsEvents(s, req, events, err) ==
  IF err # NoError
    THEN Store(s, "CRStatus", CRStatus(err, "", "", <<>>, Nil))
  ELSE IF req = Nil
    THEN s
  ELSE Store(IF ~s.b.isNil /\ s.b.Events # Nil THEN s ELSE Write(s, "Events", events),
             "CRStatus",
             CRStatus(NoError, CertificateRequests[req].Name,
                      CertificateRequests[req].Namespace,
                      CertificateRequests[req].Status.Conditions, Nil))

\* The request report given the events as well.
withCR_SetsCREvents(s, req, events, err) ==
  IF err # NoError
    THEN Store(s, "CRStatus", CRStatus(err, "", "", <<>>, Nil))
  ELSE IF req = Nil
    THEN s
  ELSE Store(Write(s, "Events", events), "CRStatus",
             CRStatus(NoError, CertificateRequests[req].Name,
                      CertificateRequests[req].Namespace,
                      CertificateRequests[req].Status.Conditions, events))

\* builder.Events = events, then builder.CRStatus = &CRStatus{...}.
withCR(s, req, events, err) ==
  IF err # NoError
    THEN Store(s, "CRStatus", CRStatus(err, "", "", <<>>, Nil))
  ELSE IF req = Nil
    THEN s
  ELSE Store(Write(s, "Events", events), "CRStatus",
             CRStatus(NoError, CertificateRequests[req].Name,
                      CertificateRequests[req].Namespace,
                      CertificateRequests[req].Status.Conditions, Nil))

\* build: the CertificateStatus, field by field from the builder.
build(b) ==
  [Name |-> b.Name, Namespace |-> b.Namespace, CreationTime |-> b.CreationTime,
   Conditions |-> b.Conditions, DNSNames |-> b.DNSNames, Events |-> b.Events,
   IssuerKind |-> b.IssuerKind,
   NotBefore |-> b.NotBefore, NotAfter |-> b.NotAfter, RenewalTime |-> b.RenewalTime,
   IssuerStatus |-> b.IssuerStatus, SecretStatus |-> b.SecretStatus,
   CRStatus |-> b.CRStatus]

\* ------------------------------------------------------------ the decoders
keyUsageToStringMap ==
  (1 :> "Digital Signature" @@ 2 :> "Content Commitment" @@
   4 :> "Key Encipherment" @@ 8 :> "Data Encipherment" @@
   16 :> "Key Agreement" @@ 32 :> "Cert Sign" @@ 64 :> "CRL Sign" @@
   128 :> "Encipher Only" @@ 256 :> "Decipher Only")

keyUsagePossibleValues == <<256, 128, 64, 32, 16, 8, 4, 2, 1>>

extKeyUsageStringValues ==
  <<"Any", "Server Authentication", "Client Authentication", "Code Signing",
    "Email Protection", "IPSEC End System", "IPSEC Tunnel", "IPSEC User",
    "Time Stamping", "OCSP Signing", "Microsoft Server Gated Crypto",
    "Netscape Server Gated Crypto", "Microsoft Commercial Code Signing",
    "Microsoft Kernel Code Signing">>

\* strings.Join(elems, sep)
RECURSIVE Join(_, _)
Join(elems, sep) ==
  IF Len(elems) = 0 THEN ""
  ELSE IF Len(elems) = 1 THEN elems[1]
  ELSE elems[1] \o sep \o Join(Tail(elems), sep)

\* The range loop of keyUsageToString from the i-th candidate value on:
\* subtract a value that fits and collect its label, stop at remainder zero.
RECURSIVE KeyUsageLoop(_, _, _)
KeyUsageLoop(usageInt, usageStrings, i) ==
  IF i > Len(keyUsagePossibleValues) THEN usageStrings
  ELSE LET val == keyUsagePossibleValues[i]
           fits == usageInt >= val
           rest == IF fits THEN usageInt - val ELSE usageInt
           strs == IF fits THEN Append(usageStrings, keyUsageToStringMap[val])
                   ELSE usageStrings
       IN IF rest = 0 THEN strs ELSE KeyUsageLoop(rest, strs, i + 1)

\* The reversing loop: swap positions i and len-1-i (0-based) while i < len/2.
RECURSIVE ReverseLoop(_, _)
ReverseLoop(usageStrings, i) ==
  IF i < Len(usageStrings) \div 2
    THEN LET opp == Len(usageStrings) - 1 - i
         IN ReverseLoop([usageStrings EXCEPT ![i + 1] = usageStrings[opp + 1],
                                              ![opp + 1] = usageStrings[i + 1]],
                        i + 1)
  ELSE usageStrings

\* The bug of leaving out the reversing loop.
keyUsageToString_NoReverse(u) ==
  Join(KeyUsageLoop(u, <<>>, 1), ", ")

keyUsageToString(u) ==
  Join(ReverseLoop(KeyUsageLoop(u, <<>>, 1), 0), ", ")

UnknownExtUsage(code) ==
  "error when converting Extended Usages to string: encountered unknown Extended Usage with code "
    \o ToString(code)

\* The range loop of extKeyUsageToString from the i-th code on.
RECURSIVE ExtKeyUsageLoop(_, _, _)
ExtKeyUsageLoop(codes, extUsageStrings, i) ==
  IF i > Len(codes) THEN <<Join(extUsageStrings, ", "), NoError>>
  ELSE IF codes[i] < 0 \/ codes[i] >= Len(extKeyUsageStringValues)
    THEN <<"", UnknownExtUsage(codes[i])>>
  ELSE ExtKeyUsageLoop(codes,
                       Append(extUsageStrings, extKeyUsageStringValues[codes[i] + 1]),
                       i + 1)

\* The bug of comparing against the last index instead of the length.
RECURSIVE ExtKeyUsageLoop_OffByOne(_, _, _)
ExtKeyUsageLoop_OffByOne(codes, extUsageStrings, i) ==
  IF i > Len(codes) THEN <<Join(extUsageStrings, ", "), NoError>>
  ELSE IF codes[i] < 0 \/ codes[i] >= Len(extKeyUsageStringValues) - 1
    THEN <<"", UnknownExtUsage(codes[i])>>
  ELSE ExtKeyUsageLoop_OffByOne(codes,
                       Append(extUsageStrings, extKeyUsageStringValues[codes[i] + 1]),
                       i + 1)

extKeyUsageToString_OffByOne(codes) == ExtKeyUsageLoop_OffByOne(codes, <<>>, 1)

\* (string, error)
extKeyUsageToString(codes) == ExtKeyUsageLoop(codes, <<>>, 1)

\* ---------------------------------------------------------------- actions
\* call is the method call just made with its arguments (obj: the first
\* pointer argument, events, err, kind), "new" right after construction;
\* panicked says that this call ended in a panic.
Call(op, obj, events, err, kind) ==
  [op |-> op, obj |-> obj, events |-> events, err |-> err, kind |-> kind]

DecoderIdle ==
  /\ usage = 0 /\ usageOut = "" /\ extUsages = <<>> /\ extOut = <<"", NoError>>
  /\ pc = "builder"

Init ==
  /\ \E crt \in Ptr(Certificates) :
       builder = newCertificateStatusBuilderFromCert(crt)
  /\ heap = <<>>
  /\ reports = <<>>
  /\ call = Call("new", Nil, Nil, NoError, "")
  /\ ncalls = 0
  /\ panicked = FALSE
  /\ DecoderIdle

\* A method can be called while the caller has calls left and has not died.
CanCall == pc = "builder" /\ ~panicked /\ ncalls < MaxCalls

State == [b |-> builder, h |-> heap, p |-> FALSE]

\* The call made, and the builder and heap it leaves, or the panic it ends in.
Made(c, s) ==
  /\ builder' = s.b
  /\ heap' = s.h
  /\ panicked' = s.p
  /\ call' = c
  /\ ncalls' = ncalls + 1
  /\ UNCHANGED decoderVars

WithEvents ==
  /\ CanCall
  /\ \E events \in Ptr(EventLists) :
       Made(Call("withEvents", Nil, events, NoError, ""), withEvents(State, events))
  /\ UNCHANGED reports

WithIssuerKind ==
  /\ CanCall
  /\ \E kind \in IssuerKinds :
       Made(Call("withIssuerKind", Nil, Nil, NoError, kind), withIssuerKind(State, kind))
  /\ UNCHANGED reports

WithIssuer ==
  /\ CanCall
  /\ \E issuer \in Ptr(Issuers), err \in ErrArg :
       Made(Call("withIssuer", issuer, Nil, err, ""), withIssuer(State, issuer, err))
  /\ UNCHANGED reports

WithClusterIssuer ==
  /\ CanCall
  /\ \E clusterIssuer \in Ptr(ClusterIssuers), err \in ErrArg :
       Made(Call("withClusterIssuer", clusterIssuer, Nil, err, ""),
            withClusterIssuer(State, clusterIssuer, err))
  /\ UNCHANGED reports

WithSecret ==
  /\ CanCall
  /\ \E secret \in Ptr(Secrets), err \in ErrArg :
       Made(Call("withSecret", secret, Nil, err, ""), withSecret(State, secret, err))
  /\ UNCHANGED reports

WithCR ==
  /\ CanCall
  /\ \E req \in Ptr(CertificateRequests), events \in Ptr(EventLists), err \in ErrArg :
       Made(Call("withCR", req, events, err, ""), withCR(State, req, events, err))
  /\ UNCHANGED reports

\* build reads builder.Name first: on the nil builder it panics.
Build ==
  /\ CanCall
  /\ IF builder.isNil
       THEN /\ reports' = reports
            /\ Made(Call("build", Nil, Nil, NoError, ""), [State EXCEPT !.p = TRUE])
     ELSE /\ reports' = Append(reports, build(builder))
          /\ Made(Call("build", Nil, Nil, NoError, ""), State)

Next ==
  \/ WithEvents
  \/ WithIssuerKind
  \/ WithIssuer
  \/ WithClusterIssuer
  \/ WithSecret
  \/ WithCR
  \/ Build

Spec == Init /\ [][Next]_vars

\* ------------------------------------------- the decoders on their own
BuilderIdle ==
  /\ builder = NoBuilder /\ heap = <<>> /\ reports = <<>>
  /\ call = Call("new", Nil, Nil, NoError, "") /\ ncalls = 0 /\ panicked = FALSE

InitKeyUsage ==
  /\ BuilderIdle
  /\ usage \in 0 .. MaxUsage
  /\ usageOut = "" /\ extUsages = <<>> /\ extOut = <<"", NoError>>
  /\ pc = "keyUsage"

KeyUsageToString ==
  /\ pc = "keyUsage"
  /\ usageOut' = keyUsageToString(usage)
  /\ pc' = "done"
  /\ UNCHANGED <<builderVars, usage, extUsages, extOut>>

SpecKeyUsage == InitKeyUsage /\ [][KeyUsageToString]_vars

ExtCodes == (0 - BadCodes) .. (Len(extKeyUsageStringValues) - 1 + BadCodes)

InitExtKeyUsage ==
  /\ BuilderIdle
  /\ extUsages \in UNION {[1 .. n -> ExtCodes] : n \in 0 .. MaxExtLen}
  /\ usage = 0 /\ usageOut = "" /\ extOut = <<"", NoError>>
  /\ pc = "extKeyUsage"

ExtKeyUsageToString ==
  /\ pc = "extKeyUsage"
  /\ extOut' = extKeyUsageToString(extUsages)
  /\ pc' = "done"
  /\ UNCHANGED <<builderVars, usage, usageOut, extUsages>>

SpecExtKeyUsage == InitExtKeyUsage /\ [][ExtKeyUsageToString]_vars

\* ------------------------------------------------ claims on the decoders
KeyUsageBits == <<0, 1, 2, 3, 4, 5, 6, 7, 8>>

Pow2(n) == IF n = 0 THEN 1 ELSE 2 ^ n

BitSet(u, bit) == (u \div Pow2(bit)) % 2 = 1

\* The labels of the bits of 0..8 that are set in u, in ascending bit order.
SetBitLabels(u) ==
  LET bits == SelectSeq(KeyUsageBits, LAMBDA bit : BitSet(u, bit))
  IN [k \in 1 .. Len(bits) |-> keyUsageToStringMap[Pow2(bits[k])]]

\* C6: for every key-usage bitset with a bit above bit 8 set (value >= 512),
\* keyUsageToString outputs exactly the labels of the bits of 0..8 that are
\* set in the input, and no label of a bit that is not set.
C6_HighBitsIgnored ==
  (pc = "done" /\ usage >= 512) => usageOut = Join(SetBitLabels(usage), ", ")

\* C7: for every key-usage bitset in 0..511, keyUsageToString outputs the
\* labels of exactly the bits set, each once, in ascending bit order, joined
\* by ", "; 0 gives "", 1 "Digital Signature", 3 "Digital Signature, Content
\* Commitment", 256 "Decipher Only".
C7_KeyUsageLabels ==
  (pc = "done" /\ usage <= 511) =>
    /\ usageOut = Join(SetBitLabels(usage), ", ")
    /\ usage = 0 => usageOut = ""
    /\ usage = 1 => usageOut = "Digital Signature"
    /\ usage = 3 => usageOut = "Digital Signature, Content Commitment"
    /\ usage = 256 => usageOut = "Decipher Only"

C7_Witness ==
  /\ pc = "done" /\ usage = 261
  /\ usageOut = "Digital Signature, Key Encipherment, Decipher Only"

\* The positions of extUsages whose code has no label.
BadPositions == {i \in 1 .. Len(extUsages) : extUsages[i] \notin 0 .. 13}

FirstBadPosition == CHOOSE i \in BadPositions : \A k \in BadPositions : i <= k

\* C8: extKeyUsageToString returns no error and the labels of the codes in
\* input order joined by ", " when every code is in 0..13; otherwise the empty
\* string and an error naming the first code outside 0..13.
C8_ExtKeyUsage ==
  pc = "done" =>
    /\ BadPositions = {} =>
         /\ extOut[2] = NoError
         /\ extOut[1] = Join([i \in 1 .. Len(extUsages) |->
                                extKeyUsageStringValues[extUsages[i] + 1]], ", ")
    /\ BadPositions # {} =>
         /\ extOut[1] = ""
         /\ extOut[2] = UnknownExtUsage(extUsages[FirstBadPosition])
    /\ extUsages = <<0, 1>> => extOut = <<"Any, Server Authentication", NoError>>
    /\ extUsages = <<13, 13>> =>
         extOut[1] = "Microsoft Kernel Code Signing, Microsoft Kernel Code Signing"

\* A list of two different bad codes: the error names the first.
C8_Witness ==
  /\ pc = "done" /\ Len(extUsages) = 2
  /\ extUsages[1] = 14 /\ extUsages[2] = 0 - 1
  /\ extOut = <<"", UnknownExtUsage(14)>>

\* ------------------------------------------------- claims on the builder
SubReportFields == {"IssuerStatus", "SecretStatus", "CRStatus"}

PlainFields ==
  {"Name", "Namespace", "CreationTime", "Conditions", "DNSNames", "NotBefore",
   "NotAfter", "RenewalTime", "Events", "IssuerKind"}

SubReportOps == {"withIssuer", "withClusterIssuer", "withSecret", "withCR"}

\* The sub-report a with* method writes.
Target(op) ==
  IF op \in {"withIssuer", "withClusterIssuer"} THEN "IssuerStatus"
  ELSE IF op = "withSecret" THEN "SecretStatus"
  ELSE "CRStatus"

\* What pointer field f of record r (the builder or a report) points to in
\* heap h: <<>> for nil, else the one object.
Sub(r, h, f) == IF r[f] = Nil THEN <<>> ELSE <<h[r[f]]>>

TLSCrt(secret) == MapGet(Secrets[secret].Data, "tls.crt")

\* The call c of withSecret was given no error and a secret without usable
\* certificate bytes.
BadSecretCall(c) ==
  /\ c.op = "withSecret" /\ c.err = NoError /\ c.obj # Nil
  /\ \/ Len(TLSCrt(c.obj)) = 0
     \/ DecodeX509CertificateBytes(TLSCrt(c.obj))[2] # NoError

\* The call c ended in failure.
FailedCall(c) ==
  /\ c.op \in SubReportOps
  /\ c.err # NoError \/ BadSecretCall(c)

\* The call c was given neither an object nor an error.
AbsentCall(c) ==
  c.op \in SubReportOps /\ c.err = NoError /\ c.obj = Nil

\* The call c was given an object it turned into an ok sub-report.
OkCall(c) ==
  c.op \in SubReportOps /\ ~FailedCall(c) /\ ~AbsentCall(c)

\* C1: in every builder state (a builder exists: the receiver is not nil) a
\* with* call that ends in failure changes only its own sub-report, to failed;
\* the two other sub-reports, the event list, IssuerKind and the identity,
\* condition, DNS and timestamp fields stay exactly as they were.
C1_ErrorIsolation ==
  [][(~builder.isNil /\ FailedCall(call')) =>
       /\ ~panicked'
       /\ builder'[Target(call'.op)] # Nil
       /\ heap'[builder'[Target(call'.op)]].Error # NoError
       /\ \A f \in SubReportFields \ {Target(call'.op)} :
            /\ builder'[f] = builder[f]
            /\ Sub(builder', heap', f) = Sub(builder, heap, f)
       /\ \A f \in PlainFields : builder'[f] = builder[f]
       /\ builder'.isNil = builder.isNil]_vars

\* A failed withCR after an ok issuer report and stored events.
C1_Witness ==
  /\ ~builder.isNil
  /\ call.op = "withCR" /\ call.err # NoError /\ call.events # Nil
  /\ builder.Events # Nil /\ builder.Events # call.events
  /\ builder.IssuerStatus # Nil
  /\ heap[builder.IssuerStatus].Error = NoError
  /\ heap[builder.CRStatus].Error = call.err

\* C2 as stated: a sub-report that a step leaves failed carries the error
\* that was passed as err to the with* call of that step.
C2_LiteralErrorAlways ==
  [][\A f \in SubReportFields :
       (~builder.isNil /\ call'.op \in SubReportOps /\ builder'[f] # builder[f]
          /\ heap'[builder'[f]].Error # NoError) =>
         heap'[builder'[f]].Error = call'.err]_vars

\* C2 as amended: a sub-report changes only in a with* call for it, and when
\* that leaves it failed its error is the err passed to the call, or, for
\* withSecret given no err and a secret whose 'tls.crt' is empty or does not
\* parse, the error withSecret builds, which names that secret.
C2_FailedErrorOrigin ==
  [][\A f \in SubReportFields :
       builder.isNil \/ builder'[f] = builder[f] \/
         /\ call'.op \in SubReportOps /\ Target(call'.op) = f
         /\ builder'[f] # Nil
         /\ LET e == heap'[builder'[f]].Error
            IN /\ call'.err # NoError => e = call'.err
               /\ (call'.err = NoError /\ e # NoError) =>
                    /\ BadSecretCall(call')
                    /\ LET name == Secrets[call'.obj].Name
                           certData == TLSCrt(call'.obj)
                       IN IF Len(certData) = 0
                            THEN e = TLSCrtNotSet(name)
                          ELSE e = TLSCrtParseError(name,
                                     DecodeX509CertificateBytes(certData)[2])]_vars

\* Both passed errors end up in failed sub-reports, and a built one in a third.
C2_Witness ==
  /\ ~builder.isNil
  /\ builder.IssuerStatus # Nil /\ builder.SecretStatus # Nil /\ builder.CRStatus # Nil
  /\ heap[builder.IssuerStatus].Error = "not found"
  /\ heap[builder.CRStatus].Error = "issuer lookup failed"
  /\ heap[builder.SecretStatus].Error = TLSCrtNotSet("secret-empty")

\* The sub-report values a record (builder or report) can hold in state ok.
OkIssuerStatus ==
  {IssuerStatus(NoError, Issuers[i].Name, "Issuer", Issuers[i].Status.Conditions) :
     i \in 1 .. Len(Issuers)}
  \cup
  {IssuerStatus(NoError, ClusterIssuers[i].Name, "ClusterIssuer",
                ClusterIssuers[i].Status.Conditions) : i \in 1 .. Len(ClusterIssuers)}

OkSecretStatus ==
  {SecretStatus(NoError, Secrets[i].Name, DecodeX509CertificateBytes(TLSCrt(i))[1]) :
     i \in {k \in 1 .. Len(Secrets) :
              DecodeX509CertificateBytes(TLSCrt(k))[2] = NoError}}

OkCRStatusOf(obj) ==
  \E i \in 1 .. Len(CertificateRequests) :
    /\ obj.Name = CertificateRequests[i].Name
    /\ obj.Namespace = CertificateRequests[i].Namespace
    /\ obj.Conditions = CertificateRequests[i].Status.Conditions

\* Sub-report object obj of field f is failed with nothing else set, or ok
\* with the fields of a supplied object.
FailedOrOk(f, obj) ==
  IF obj.Error # NoError
    THEN /\ f = "IssuerStatus" => obj = IssuerStatus(obj.Error, "", "", <<>>)
         /\ f = "SecretStatus" => obj = SecretStatus(obj.Error, "", ZeroCert)
         /\ f = "CRStatus" => obj = CRStatus(obj.Error, "", "", <<>>, Nil)
  ELSE /\ f = "IssuerStatus" => obj \in OkIssuerStatus
       /\ f = "SecretStatus" => obj \in OkSecretStatus
       /\ f = "CRStatus" => OkCRStatusOf(obj)

\* The records that hold sub-reports: the builder and every report built.
Holders ==
  (IF builder.isNil THEN {} ELSE {builder}) \cup {reports[i] : i \in 1 .. Len(reports)}

\* C3: every sub-report present in the builder or in a built report is either
\* failed (Error set, every other field empty) or ok (Error absent, fields
\* those of the supplied object); and right after a with* call that was given
\* an object and did not fail, its sub-report is ok with that object's fields.
C3_FailedOrOk ==
  /\ \A r \in Holders : \A f \in SubReportFields :
       r[f] # Nil => FailedOrOk(f, heap[r[f]])
  /\ (~builder.isNil /\ OkCall(call)) =>
       LET obj == heap[builder[Target(call.op)]]
       IN /\ obj.Error = NoError
          /\ call.op = "withIssuer" =>
               obj.Name = Issuers[call.obj].Name /\ obj.Kind = "Issuer"
                 /\ obj.Conditions = Issuers[call.obj].Status.Conditions
          /\ call.op = "withClusterIssuer" =>
               obj.Name = ClusterIssuers[call.obj].Name /\ obj.Kind = "ClusterIssuer"
                 /\ obj.Conditions = ClusterIssuers[call.obj].Status.Conditions
          /\ call.op = "withSecret" =>
               obj = SecretStatus(NoError, Secrets[call.obj].Name,
                                  DecodeX509CertificateBytes(TLSCrt(call.obj))[1])
          /\ call.op = "withCR" =>
               obj.Name = CertificateRequests[call.obj].Name
                 /\ obj.Namespace = CertificateRequests[call.obj].Namespace
                 /\ obj.Conditions = CertificateRequests[call.obj].Status.Conditions

\* A report with a failed issuer report next to an ok secret report.
C3_Witness ==
  /\ Len(reports) = 1
  /\ reports[1].IssuerStatus # Nil /\ reports[1].SecretStatus # Nil
  /\ heap[reports[1].IssuerStatus].Error # NoError
  /\ heap[reports[1].SecretStatus].Error = NoError
  /\ heap[reports[1].SecretStatus].Name = "secret-a"

\* C4: a with* call given neither object nor error leaves the whole builder
\* state unchanged: every sub-report keeps its value and withCR does not store
\* the events it was given.  On the nil builder too the call returns the
\* receiver as it is, without a panic.
C4_NoOpOnAbsent ==
  [][AbsentCall(call') =>
       /\ ~panicked'
       /\ builder' = builder
       /\ heap' = heap
       /\ reports' = reports]_vars

\* withCR(nil, events, nil) after an ok request report stored other events.
C4_Witness ==
  /\ ~builder.isNil
  /\ call.op = "withCR" /\ AbsentCall(call) /\ call.events # Nil
  /\ builder.Events # Nil /\ builder.Events # call.events
  /\ builder.CRStatus # Nil /\ heap[builder.CRStatus].Error = NoError

ReportFields == PlainFields \cup SubReportFields

\* C5: build returns the builder's fields as they are at the call and leaves
\* the builder alone; a report, once returned, and the sub-reports it points
\* to never change in any later step.
C5_BuildSnapshot ==
  [][/\ (~builder.isNil /\ call'.op = "build") =>
          /\ ~panicked'
          /\ Len(reports') = Len(reports) + 1
          /\ \A f \in ReportFields : reports'[Len(reports')][f] = builder[f]
          /\ DOMAIN reports'[Len(reports')] = ReportFields
          /\ builder' = builder /\ heap' = heap
     /\ (builder.isNil \/ call'.op # "build") => Len(reports') = Len(reports)
     /\ \A i \in 1 .. Len(reports) :
          /\ reports'[i] = reports[i]
          /\ \A f \in SubReportFields :
               Sub(reports'[i], heap', f) = Sub(reports[i], heap, f)]_vars

\* A report that holds an ok issuer report while the builder, after a later
\* failed withIssuer, holds a failed one.
C5_Witness ==
  /\ Len(reports) = 1
  /\ reports[1].IssuerStatus # Nil
  /\ heap[reports[1].IssuerStatus].Error = NoError
  /\ call.op = "withIssuer" /\ call.err # NoError
  /\ builder.IssuerStatus # reports[1].IssuerStatus
  /\ heap[builder.IssuerStatus].Error = call.err

\* C9: withCR given a request and no error stores the events it was given,
\* withEvents stores its argument, every other call (withCR with an error or
\* without a request included) leaves the event list alone, and build reports
\* the list stored.
C9_EventList ==
  [][builder.isNil \/
       /\ (call'.op = "withCR" /\ OkCall(call')) => builder'.Events = call'.events
       /\ call'.op = "withEvents" => builder'.Events = call'.events
       /\ (call'.op \notin {"withCR", "withEvents"}
             \/ (call'.op = "withCR" /\ ~OkCall(call'))) =>
            builder'.Events = builder.Events
       /\ call'.op = "build" => reports'[Len(reports')].Events = builder.Events]_vars

\* A successful withCR given no events replaces the events an earlier
\* withEvents stored, which a report built in between still shows.
C9_Witness ==
  /\ Len(reports) = 1 /\ reports[1].Events # Nil
  /\ call.op = "withCR" /\ OkCall(call) /\ call.events = Nil
  /\ builder.Events = Nil

\* CRStatus.String hands crStatus.Events to util.DescribeEvents.
DescribedEvents(crStatus) == crStatus.Events

\* C10: no CRStatus the builder or a built report points to has its own
\* Events set, so CRStatus.String always describes an absent event list.
C10_CRStatusEventsAbsent ==
  \A r \in Holders :
    r.CRStatus # Nil =>
      /\ heap[r.CRStatus].Events = Nil
      /\ DescribedEvents(heap[r.CRStatus]) = Nil

\* A report built after a successful withCR that was given events: they are
\* the report's events.
C10_Witness ==
  /\ Len(reports) = 1 /\ reports[1].CRStatus # Nil
  /\ heap[reports[1].CRStatus].Error = NoError
  /\ reports[1].Events # Nil
  /\ EventLists[reports[1].Events] = <<"Requested", "Issued">>

====
